---- MODULE Spec2Model ----
(***************************************************************************)
(* ViCare binary sensors (homeassistant/components/vicare/binary_sensor.py) *)
(* The entity builder run by async_setup_entry and the polled sensor        *)
(* ViCareBinarySensor (available / update).                                 *)
(***************************************************************************)
EXTENDS Integers, Sequences, FiniteSets, TLC

\* ---- bounds of the model ------------------------------------------------
MaxComponents == 2   \* circuits, burners and compressors of a device, together
MaxSensors == 2      \* sensors of a device that is polled
MaxPolls == 2        \* calls of update

VARIABLES
    device,     \* the vendor device: how many circuits, burners, compressors
    features,   \* what the supported-probe answers for each feature at setup
    phase,      \* "setup" | "running" | "failed"
    entities,   \* the list handed to async_add_entities
    is_on,      \* _attr_is_on of each entity of the list
    calls,      \* the update() invocations so far: sensor and accessor outcome
    raised,     \* the exception that escaped the last call, or "none"
    log         \* the records emitted on _LOGGER

vars == <<device, features, phase, entities, is_on, calls, raised, log>>

\* ---- python values ------------------------------------------------------
PyNone == "None"
PyTrue == "True"
PyFalse == "False"
PyBool == {PyTrue, PyFalse}

Returned(v) == [kind |-> "return", value |-> v]
Raised(e) == [kind |-> "raise", value |-> e]

\* ---- exceptions ---------------------------------------------------------
PyViCareNotSupportedFeatureError == "PyViCareNotSupportedFeatureError"
PyViCareRateLimitError == "PyViCareRateLimitError"
PyViCareInvalidDataError == "PyViCareInvalidDataError"
ConnectionError == "ConnectionError"
ValueError == "ValueError"
JSONDecodeError == "JSONDecodeError"
KeyError == "KeyError"

\* what an accessor raises: the decoding failure is a subclass of ValueError,
\* KeyError stands for the exceptions update names no clause for
Exceptions ==
    { PyViCareNotSupportedFeatureError, PyViCareRateLimitError,
      PyViCareInvalidDataError, ConnectionError, JSONDecodeError, KeyError }

\* the classes an exception is an instance of
Bases(e) ==
    IF e = JSONDecodeError THEN {JSONDecodeError, ValueError, "Exception"}
    ELSE {e, "Exception"}

IsInstance(e, cls) == cls \in Bases(e)

\* ---- descriptor tables --------------------------------------------------
CIRCUIT_SENSORS == <<"circulationpump_active", "frost_protection_active">>
BURNER_SENSORS == <<"burner_active">>
COMPRESSOR_SENSORS == <<"compressor_active">>
GLOBAL_SENSORS ==
    <<"solar_pump_active", "charging_active",
      "dhw_circulationpump_active", "dhw_pump_active">>

\* ---- the vendor device --------------------------------------------------
Component(scope, id) == [scope |-> scope, id |-> id]
TheDevice == Component("device", 0)

get_circuits(d) == [i \in 1..d.circuits |-> Component("circuit", i)]
get_burners(d) == [i \in 1..d.burners |-> Component("burner", i)]
get_compressors(d) == [i \in 1..d.compressors |-> Component("compressor", i)]

Range(s) == {s[i] : i \in DOMAIN s}

\* every (device-or-component, key) the vendor client can be asked about
Pairs(d) ==
    ({TheDevice} \X Range(GLOBAL_SENSORS))
    \cup (Range(get_circuits(d)) \X Range(CIRCUIT_SENSORS))
    \cup (Range(get_burners(d)) \X Range(BURNER_SENSORS))
    \cup (Range(get_compressors(d)) \X Range(COMPRESSOR_SENSORS))

NumComponents(d) == d.circuits + d.burners + d.compressors

Devices ==
    {d \in [circuits : 0..MaxComponents, burners : 0..MaxComponents,
            compressors : 0..MaxComponents] : NumComponents(d) <= MaxComponents}

\* what the supported-probe of a feature does: it answers true or false, or
\* raises the distinguished error
ProbeOutcomes ==
    {Returned(PyTrue), Returned(PyFalse), Raised(PyViCareNotSupportedFeatureError)}

\* what an accessor does when it is polled
PollOutcomes ==
    {Returned(b) : b \in PyBool} \cup {Raised(e) : e \in Exceptions}

Probe(description, api) == features[<<api, description>>]

\* ---- entity builder -----------------------------------------------------
\* the probe's answer, with the distinguished error turned into False
is_supported(name, entity_description, vicare_device) ==
    LET r == Probe(entity_description, vicare_device)
    IN  IF r.kind = "raise" /\ IsInstance(r.value, PyViCareNotSupportedFeatureError)
        THEN Returned(PyFalse)
        ELSE r

ViCareBinarySensor(api, description) ==
    [api |-> api, entity_description |-> description]

attr_is_on_default == PyNone

\* [ ViCareBinarySensor(c, d) for c in components for d in descriptions
\*   if is_supported(d.key, d, c) ]
Comprehension(components, descriptions) ==
    LET n == Len(components) * Len(descriptions)
        c(k) == components[((k - 1) \div Len(descriptions)) + 1]
        d(k) == descriptions[((k - 1) % Len(descriptions)) + 1]
        cand == [k \in 1..n |-> ViCareBinarySensor(c(k), d(k))]
        probe(e) == is_supported(e.entity_description, e.entity_description, e.api)
        bad == {k \in 1..n : probe(cand[k]).kind = "raise"}
        first == CHOOSE k \in bad : \A j \in bad : k <= j
    IN  IF bad # {} THEN Raised(probe(cand[first]).value)
        ELSE Returned(SelectSeq(cand, LAMBDA e : probe(e).value = PyTrue))

\* the comprehension asks the vendor client itself, so that the
\* distinguished error reaches the builder
_build_entities_for_device_unguarded(d) ==
    LET raw(k) == Probe(GLOBAL_SENSORS[k], TheDevice)
        cand == [k \in DOMAIN GLOBAL_SENSORS |->
                    ViCareBinarySensor(TheDevice, GLOBAL_SENSORS[k])]
        bad == {k \in DOMAIN GLOBAL_SENSORS : raw(k).kind = "raise"}
        first == CHOOSE k \in bad : \A j \in bad : k <= j
    IN  IF bad # {} THEN raw(first)
        ELSE Returned(SelectSeq(cand,
                LAMBDA e : Probe(e.entity_description, e.api).value = PyTrue))

_build_entities_for_device(d) ==
    Comprehension(<<TheDevice>>, GLOBAL_SENSORS)

\* the comprehension without its if clause
_build_entities_for_component_unfiltered(components, entity_descriptions) ==
    LET n == Len(components) * Len(entity_descriptions)
    IN  Returned([k \in 1..n |->
            ViCareBinarySensor(
                components[((k - 1) \div Len(entity_descriptions)) + 1],
                entity_descriptions[((k - 1) % Len(entity_descriptions)) + 1])])

_build_entities_for_component(components, entity_descriptions) ==
    Comprehension(components, entity_descriptions)

\* a.extend(b), where evaluating either may raise
Extend(a, b) ==
    IF a.kind = "raise" THEN a
    ELSE IF b.kind = "raise" THEN b
    ELSE Returned(a.value \o b.value)

_build_entities(d) ==
    Extend(Extend(Extend(
        _build_entities_for_device(d),
        _build_entities_for_component(get_circuits(d), CIRCUIT_SENSORS)),
        _build_entities_for_component(get_burners(d), BURNER_SENSORS)),
        _build_entities_for_component(get_compressors(d), COMPRESSOR_SENSORS))

async_setup_entry ==
    /\ phase = "setup"
    /\ LET r == _build_entities(device)
       IN  IF r.kind = "raise"
           THEN /\ phase' = "failed"
                /\ raised' = r.value
                /\ UNCHANGED <<entities, is_on>>
           ELSE /\ phase' = "running"
                /\ raised' = "none"
                /\ entities' = r.value
                /\ is_on' = [i \in 1..Len(r.value) |-> attr_is_on_default]
    /\ UNCHANGED <<device, features, calls, log>>

\* ---- polled sensor ------------------------------------------------------
\* truthiness of the value instead of "is not None"
available_truthy(self) == is_on[self] = PyTrue

available(self) == is_on[self] # PyNone

\* with suppress(cls): the block's completion as seen after the with
suppress(cls, r) ==
    IF r.kind = "raise" /\ IsInstance(r.value, cls) THEN Returned(PyNone) ELSE r

\* the store goes to another attribute
Assign_lost(self, r) == is_on

\* the store records whether the reading changed
Assign_toggle(self, r) ==
    IF r.kind = "return"
    THEN [is_on EXCEPT ![self] =
            IF is_on[self] = r.value
            THEN (IF r.value = PyTrue THEN PyFalse ELSE PyTrue)
            ELSE r.value]
    ELSE is_on

\* the value cell is a class attribute shared by every sensor
Assign_shared(self, r) ==
    IF r.kind = "return" THEN [i \in DOMAIN is_on |-> r.value] ELSE is_on

\* a failing call clears the value
Assign_clear_on_error(self, r) ==
    IF r.kind = "return" THEN [is_on EXCEPT ![self] = r.value]
    ELSE [is_on EXCEPT ![self] = PyNone]

\* self._attr_is_on = <accessor call>: the store happens only if the call returns
Assign(self, r) ==
    IF r.kind = "return" THEN [is_on EXCEPT ![self] = r.value] ELSE is_on

\* the rate-limit clause is missing
ExceptClauses_no_rate_limit ==
    << [cls |-> ConnectionError, withArg |-> FALSE,
        msg |-> "Unable to retrieve data from ViCare server"],
       [cls |-> ValueError, withArg |-> FALSE,
        msg |-> "Unable to decode data from ViCare server"],
       [cls |-> PyViCareInvalidDataError, withArg |-> TRUE,
        msg |-> "Invalid data from Vicare server: %s"] >>

\* the decode clause logs the connection message
ExceptClauses_copied_message ==
    << [cls |-> ConnectionError, withArg |-> FALSE,
        msg |-> "Unable to retrieve data from ViCare server"],
       [cls |-> ValueError, withArg |-> FALSE,
        msg |-> "Unable to retrieve data from ViCare server"],
       [cls |-> PyViCareRateLimitError, withArg |-> TRUE,
        msg |-> "Vicare API rate limit exceeded: %s"],
       [cls |-> PyViCareInvalidDataError, withArg |-> TRUE,
        msg |-> "Invalid data from Vicare server: %s"] >>

\* a trailing catch-all clause
ExceptClauses_catch_all ==
    << [cls |-> ConnectionError, withArg |-> FALSE,
        msg |-> "Unable to retrieve data from ViCare server"],
       [cls |-> ValueError, withArg |-> FALSE,
        msg |-> "Unable to decode data from ViCare server"],
       [cls |-> PyViCareRateLimitError, withArg |-> TRUE,
        msg |-> "Vicare API rate limit exceeded: %s"],
       [cls |-> PyViCareInvalidDataError, withArg |-> TRUE,
        msg |-> "Invalid data from Vicare server: %s"],
       [cls |-> "Exception", withArg |-> TRUE,
        msg |-> "Unexpected error: %s"] >>

ExceptClauses ==
    << [cls |-> ConnectionError, withArg |-> FALSE,
        msg |-> "Unable to retrieve data from ViCare server"],
       [cls |-> ValueError, withArg |-> FALSE,
        msg |-> "Unable to decode data from ViCare server"],
       [cls |-> PyViCareRateLimitError, withArg |-> TRUE,
        msg |-> "Vicare API rate limit exceeded: %s"],
       [cls |-> PyViCareInvalidDataError, withArg |-> TRUE,
        msg |-> "Invalid data from Vicare server: %s"] >>

\* the first except clause that matches e, 0 if none does
Handler(e) ==
    LET m == {k \in DOMAIN ExceptClauses : IsInstance(e, ExceptClauses[k].cls)}
    IN  IF m = {} THEN 0 ELSE CHOOSE k \in m : \A j \in m : k <= j

LogError(h, e) ==
    [level |-> "error", msg |-> ExceptClauses[h].msg,
     arg |-> IF ExceptClauses[h].withArg THEN e ELSE "none"]

update(self, outcome) ==
    LET afterWith == suppress(PyViCareNotSupportedFeatureError, outcome)
        h == IF afterWith.kind = "raise" THEN Handler(afterWith.value) ELSE 0
    IN  /\ phase = "running"
        /\ Len(calls) < MaxPolls
        /\ is_on' = Assign(self, outcome)
        /\ log' = IF h > 0 THEN Append(log, LogError(h, afterWith.value)) ELSE log
        /\ raised' = IF afterWith.kind = "raise" /\ h = 0
                     THEN afterWith.value ELSE "none"
        /\ calls' = Append(calls, [sensor |-> self, outcome |-> outcome])
        /\ UNCHANGED <<device, features, phase, entities>>

Poll == \E self \in DOMAIN is_on : \E outcome \in PollOutcomes : update(self, outcome)

\* ---- specifications -----------------------------------------------------
NothingBuilt ==
    /\ phase = "setup"
    /\ entities = <<>>
    /\ is_on = <<>>
    /\ calls = <<>>
    /\ raised = "none"
    /\ log = <<>>

\* setup: every device within the bounds, every answer of every probe
InitSetup ==
    /\ device \in Devices
    /\ features \in [Pairs(device) -> ProbeOutcomes]
    /\ NothingBuilt

Supported == {p \in DOMAIN features : features[p] = Returned(PyTrue)}

\* setup followed by polling: the devices with at most one sub-component and
\* at most MaxSensors supported features, the other probes raising
Init ==
    /\ device \in Devices
    /\ NumComponents(device) <= 1
    /\ features \in [Pairs(device) ->
            {Returned(PyTrue), Raised(PyViCareNotSupportedFeatureError)}]
    /\ Cardinality(Supported) <= MaxSensors
    /\ NothingBuilt

Next == async_setup_entry \/ Poll

Spec == Init /\ [][Next]_vars

NextSetup == async_setup_entry

SpecSetup == InitSetup /\ [][NextSetup]_vars

\* ---- properties ---------------------------------------------------------
\* the five error classes update handles
Handled ==
    { PyViCareNotSupportedFeatureError, ConnectionError, ValueError,
      PyViCareRateLimitError, PyViCareInvalidDataError }

IsHandled(e) == \E cls \in Handled : IsInstance(e, cls)

\* this step is one call of update
PollStep == Len(calls') = Len(calls) + 1

\* C1: when a poll's accessor returns a boolean b, then after the poll the
\* sensor's value is b and the sensor is available, whatever the value was
\* before.
C1_ReturnedValueStored ==
    calls # <<>> =>
        LET c == calls[Len(calls)]
        IN  c.outcome.kind = "return" =>
                /\ c.outcome.value \in PyBool
                /\ is_on[c.sensor] = c.outcome.value
                /\ available(c.sensor)

\* a sensor that was on has been polled again and the accessor returned off
C1_Witness ==
    /\ Len(calls) = 2
    /\ calls[1].sensor = calls[2].sensor
    /\ calls[1].outcome = Returned(PyTrue)
    /\ calls[2].outcome = Returned(PyFalse)
    /\ is_on[calls[2].sensor] = PyFalse

\* C2: a poll whose accessor raises one of the five handled errors lets no
\* exception escape and leaves the sensor's value and availability as they
\* were before the poll.
C2_HandledErrorKeepsState ==
    [][ PollStep =>
          LET c == calls'[Len(calls')]
          IN  (c.outcome.kind = "raise" /\ IsHandled(c.outcome.value)) =>
                  \A i \in DOMAIN is_on :
                      i = c.sensor =>
                          /\ raised' = "none"
                          /\ is_on'[i] = is_on[i]
                          /\ available(i)' = available(i) ]_vars

\* a sensor that holds a value has been polled and the accessor raised the
\* rate-limit error
C2_Witness ==
    /\ Len(calls) = 2
    /\ calls[1].sensor = calls[2].sensor
    /\ calls[1].outcome = Returned(PyTrue)
    /\ calls[2].outcome = Raised(PyViCareRateLimitError)
    /\ is_on[calls[2].sensor] = PyTrue
    /\ raised = "none"

\* C3: after setup the entity list holds exactly one sensor for every
\* (device-or-component, descriptor) pair whose supported-probe succeeded,
\* none for a pair whose probe answered false or raised not-supported, and
\* nothing else: the GLOBAL descriptors go with the device, each circuit,
\* burner and compressor with the descriptors of its own table.
C3_OneSensorPerSupportedPair ==
    phase = "running" =>
        /\ \A p \in Pairs(device) :
              Cardinality({i \in DOMAIN entities :
                              entities[i] = ViCareBinarySensor(p[1], p[2])})
                  = IF features[p] = Returned(PyTrue) THEN 1 ELSE 0
        /\ \A i \in DOMAIN entities :
              <<entities[i].api, entities[i].entity_description>> \in Pairs(device)

\* a device with a circuit that supports the circulation pump but not frost
\* protection has been set up
C3_Witness ==
    /\ phase = "running"
    /\ device.circuits >= 1
    /\ features[<<Component("circuit", 1), "circulationpump_active">>] = Returned(PyTrue)
    /\ features[<<Component("circuit", 1), "frost_protection_active">>]
          = Raised(PyViCareNotSupportedFeatureError)
    /\ Cardinality({i \in DOMAIN entities : entities[i].api = Component("circuit", 1)}) = 1

\* C4: a sensor is available exactly when it holds a value; once set up, no
\* poll removes a sensor from the list, and no poll makes a sensor that
\* holds a value unavailable.
C4_AvailableIffValuePresent ==
    /\ [](\A i \in DOMAIN is_on : available(i) <=> is_on[i] \in PyBool)
    /\ [][ phase = "running" =>
              /\ entities' = entities
              /\ DOMAIN is_on' = DOMAIN is_on
              /\ \A i \in DOMAIN is_on :
                    is_on[i] \in PyBool => (is_on'[i] \in PyBool /\ available(i)') ]_vars

\* a sensor holding the value off has just had a failing poll
C4_Witness ==
    /\ Len(calls) = 2
    /\ calls[1].sensor = calls[2].sensor
    /\ calls[1].outcome = Returned(PyFalse)
    /\ calls[2].outcome = Raised(ConnectionError)
    /\ is_on[calls[2].sensor] = PyFalse
    /\ available(calls[2].sensor)

C6_PollIdempotent ==
    [][ (PollStep /\ calls # <<>>) =>
          LET c1 == calls[Len(calls)]
              c2 == calls'[Len(calls')]
          IN  (c1 = c2 /\ c2.outcome.kind = "return") =>
                  /\ is_on' = is_on
                  /\ \A i \in DOMAIN is_on : available(i)' = available(i) ]_vars

\* the same sensor has been polled twice and the accessor returned on both
\* times
C6_Witness ==
    /\ Len(calls) = 2
    /\ calls[1] = calls[2]
    /\ calls[1].outcome = Returned(PyTrue)
    /\ is_on[calls[1].sensor] = PyTrue

\* C7: a poll changes no sensor's value but the polled one's, and each
\* sensor's value is the boolean returned by the latest of its own polls
\* that returned (absent if none did), however the polls are interleaved.
C7_SensorsIndependent ==
    /\ [](\A i \in DOMAIN is_on :
            LET own == {k \in DOMAIN calls :
                          calls[k].sensor = i /\ calls[k].outcome.kind = "return"}
            IN  is_on[i] = IF own = {} THEN PyNone
                           ELSE calls[CHOOSE k \in own : \A j \in own : j <= k].outcome.value)
    /\ [][ PollStep =>
              \A i \in DOMAIN is_on :
                  i # calls'[Len(calls')].sensor => is_on'[i] = is_on[i] ]_vars

\* two different sensors have been polled one after the other with different
\* readings
C7_Witness ==
    /\ Len(calls) = 2
    /\ calls[1].sensor # calls[2].sensor
    /\ calls[1].outcome = Returned(PyTrue)
    /\ calls[2].outcome = Returned(PyFalse)
    /\ is_on[calls[1].sensor] = PyTrue
    /\ is_on[calls[2].sensor] = PyFalse

\* C8: a poll that returns, or whose accessor raises not-supported, logs
\* nothing; a poll whose accessor raises a connection, decoding, rate-limit
\* or invalid-data error logs exactly one error record, the one of that kind.
C8_FailuresLoggedExceptNotSupported ==
    [][ PollStep =>
          LET o == calls'[Len(calls')].outcome
              e == o.value
              expected ==
                  IF IsInstance(e, ConnectionError)
                  THEN "Unable to retrieve data from ViCare server"
                  ELSE IF IsInstance(e, ValueError)
                  THEN "Unable to decode data from ViCare server"
                  ELSE IF IsInstance(e, PyViCareRateLimitError)
                  THEN "Vicare API rate limit exceeded: %s"
                  ELSE "Invalid data from Vicare server: %s"
          IN  IF o.kind = "return" \/ IsInstance(e, PyViCareNotSupportedFeatureError)
              THEN log' = log
              ELSE IsHandled(e) =>
                      /\ Len(log') = Len(log) + 1
                      /\ SubSeq(log', 1, Len(log)) = log
                      /\ log'[Len(log')].level = "error"
                      /\ log'[Len(log')].msg = expected ]_vars

\* a silent not-supported poll has been followed by a decoding failure, which
\* left the only record in the log
C8_Witness ==
    /\ Len(calls) = 2
    /\ calls[1].outcome = Raised(PyViCareNotSupportedFeatureError)
    /\ calls[2].outcome = Raised(JSONDecodeError)
    /\ Len(log) = 1
    /\ log[1].msg = "Unable to decode data from ViCare server"

\* C9: a sensor is unavailable until one of its polls has returned, and
\* once it is available it stays available after every later poll.
C9_AvailabilityMonotone ==
    /\ [](\A i \in DOMAIN is_on :
            (\A k \in DOMAIN calls :
                calls[k].sensor = i => calls[k].outcome.kind = "raise")
            => ~available(i))
    /\ [][ \A i \in DOMAIN is_on : available(i) => available(i)' ]_vars

\* a sensor became available by a poll that returned and has had a failing
\* poll since
C9_Witness ==
    /\ Len(calls) = 2
    /\ calls[1].sensor = calls[2].sensor
    /\ calls[1].outcome.kind = "return"
    /\ calls[2].outcome = Raised(PyViCareInvalidDataError)
    /\ available(calls[2].sensor)

\* C10: when the accessor raises an exception that is none of the five
\* handled kinds, the exception escapes update and the sensor's value is
\* left as it was.
C10_UnhandledErrorEscapes ==
    [][ PollStep =>
          LET c == calls'[Len(calls')]
          IN  (c.outcome.kind = "raise" /\ ~IsHandled(c.outcome.value)) =>
                  /\ raised' = c.outcome.value
                  /\ is_on' = is_on
                  /\ log' = log ]_vars

\* a KeyError has escaped the poll of a sensor that holds a value
C10_Witness ==
    /\ Len(calls) = 2
    /\ calls[1].sensor = calls[2].sensor
    /\ calls[1].outcome = Returned(PyTrue)
    /\ calls[2].outcome = Raised(KeyError)
    /\ raised = KeyError
    /\ is_on[calls[2].sensor] = PyTrue

====
